---- MODULE Spec2Model ----
(***************************************************************************)
(* Model of src/packages/parser.rs: the per-line n-gram accumulator        *)
(* (process_dictionary_builder_line), the workers and the two              *)
(* orchestrators (dictionary_builder, dictionary_builder_conc).            *)
(*                                                                         *)
(* Strings are sequences of one-character strings, so that tokenization,   *)
(* key formatting ("a^b") and lexicographic sorting are computed, not      *)
(* assumed.  A frequency table is a function from keys to counts.          *)
(* An Option<T> is None or Some(x), modelled as <<>> or <<x>>.             *)
(***************************************************************************)
EXTENDS Integers, Sequences, FiniteSets, TLC

VARIABLES
    variant,        \* entry point invoked: "single" (parse_raw_single) or "conc" (parse_raw_conc)
    file,           \* the input file: NoFile, or the sequence of its raw lines
    num_workers,    \* num_threads, unwrapped (lines 280-284 / 378-382)
    pc,             \* position of the orchestrator thread
    vec_lines,      \* the loaded lines
    chunks,         \* vec_lines.chunks(..), the chunks still to dispatch are chunks[next_chunk..]
    next_chunk,     \* index of the next chunk the dispatch loop hands to the pool
    jobs,           \* one record per dispatched closure: its worker's locals and its state
    chan,           \* the mpsc channel (tx, rx): partial results sent and not yet received
    dbl,            \* orchestrator's bigram table (HashMap, or DashMap in the conc variant)
    trpl,           \* orchestrator's trigram table
    all_token_list, \* orchestrator's Vec of tokens (vec_all_token_list in the conc variant)
    dset,           \* the conc variant's DashSet all_token_list
    ret,            \* the returned triple, None until the call returns
    call,           \* a single call of process_dictionary_builder_line (SpecLine)
    sent            \* history: the jobs in the order their results entered the channel

vars == <<variant, file, num_workers, pc, vec_lines, chunks, next_chunk, jobs,
          chan, dbl, trpl, all_token_list, dset, ret, call, sent>>

(***************************************************************************)
(* Bounds of the model.                                                    *)
(***************************************************************************)
MaxLines == 4       \* longest input file, in lines
MaxWorkers == 3     \* largest num_threads

(***************************************************************************)
(* Basic values.                                                           *)
(***************************************************************************)
None == <<>>
Some(x) == <<x>>
Unwrap(o) == o[1]

EmptyMap == [k \in {} |-> 0]
NoFile == "NoFile"
NoRet == "NoRet"

\* Byte values of the characters used, for the byte-wise order of Rust strings.
Ord(c) ==
    CASE c = " " -> 32
      [] c = "*" -> 42
      [] c = "7" -> 55
      [] c = "<" -> 60
      [] c = ">" -> 62
      [] c = "^" -> 94
      [] c = "a" -> 97
      [] c = "b" -> 98
      [] c = "c" -> 99
      [] c = "d" -> 100

\* Ord for str: lexicographic on bytes, a proper prefix being smaller.
RECURSIVE StrLess(_, _)
StrLess(s, t) ==
    IF t = <<>> THEN FALSE
    ELSE IF s = <<>> THEN TRUE
    ELSE IF Head(s) = Head(t) THEN StrLess(Tail(s), Tail(t))
    ELSE Ord(Head(s)) < Ord(Head(t))

(***************************************************************************)
(* Line extraction (lines 125-150).  A raw line is a record: `captures`    *)
(* tells whether the schema's compiled regex matches the trimmed line, and *)
(* `Content` is the text its Content group then captures.  A redactor is   *)
(* modelled as a literal pattern.                                          *)
(***************************************************************************)
\* `decodes` tells whether the file's line is valid UTF-8 (lines 272-276).
Line(c, content) == [decodes |-> TRUE, captures |-> c, Content |-> content]
Undecodable == [decodes |-> FALSE, captures |-> FALSE, Content |-> <<>>]

\* censored_regexps(lf): the ordered redactors of the schema in use.
censored_regexps == << <<"7">> >>

IsPrefix(p, s) == Len(p) <= Len(s) /\ SubSeq(s, 1, Len(p)) = p

\* Regex::replace_all(line, "<*>"): leftmost non-overlapping matches.
RECURSIVE ReplaceAll(_, _)
ReplaceAll(s, pat) ==
    IF s = <<>> THEN <<>>
    ELSE IF IsPrefix(pat, s)
         THEN <<"<", "*", ">">> \o ReplaceAll(SubSeq(s, Len(pat) + 1, Len(s)), pat)
         ELSE <<Head(s)>> \o ReplaceAll(Tail(s), pat)

RECURSIVE ApplyFrom(_, _, _)
ApplyFrom(line, res, i) ==
    IF i > Len(res) THEN line
    ELSE ApplyFrom(ReplaceAll(line, res[i]), res, i + 1)

\* let mut line = format!(" {}", log_line); for s in domain_specific_re { replace_all }
apply_domain_specific_re(log_line, domain_specific_re) ==
    ApplyFrom(<<" ">> \o log_line, domain_specific_re, 1)

\* str::split_whitespace: the maximal runs of non-space characters, in order.
RECURSIVE SplitFrom(_, _, _)
SplitFrom(s, i, cur) ==
    IF i > Len(s) THEN (IF cur = <<>> THEN <<>> ELSE <<cur>>)
    ELSE IF s[i] = " "
         THEN (IF cur = <<>> THEN <<>> ELSE <<cur>>) \o SplitFrom(s, i + 1, <<>>)
         ELSE SplitFrom(s, i + 1, Append(cur, s[i]))

split_whitespace(s) == SplitFrom(s, 1, <<>>)

token_splitter(log_line, domain_specific_re) ==
    IF log_line.captures
    THEN split_whitespace(apply_domain_specific_re(log_line.Content, domain_specific_re))
    ELSE <<>>

(***************************************************************************)
(* process_dictionary_builder_line (lines 171-258).                        *)
(***************************************************************************)
\* NextTokens never reading the lookahead line.
NextTokensNone(lookahead_line, regexps) == <<None, None>>

\* lines 175-185: the first two tokens of the lookahead line.
NextTokens(lookahead_line, regexps) ==
    IF lookahead_line = None THEN <<None, None>>
    ELSE LET next_tokens == token_splitter(Unwrap(lookahead_line), regexps)
         IN  IF Len(next_tokens) = 0 THEN <<None, None>>
             ELSE IF Len(next_tokens) = 1 THEN <<Some(next_tokens[1]), None>>
             ELSE <<Some(next_tokens[1]), Some(next_tokens[2])>>

Contains(v, t) == \E i \in 1..Len(v) : v[i] = t

\* line 193: push every token the Vec does not contain yet.
RECURSIVE VecAddTokens(_, _, _)
VecAddTokens(v, tokens, i) ==
    IF i > Len(tokens) THEN v
    ELSE VecAddTokens(IF Contains(v, tokens[i]) THEN v ELSE Append(v, tokens[i]),
                      tokens, i + 1)

\* line 196: insert every token the DashSet does not contain yet.
DSetAddTokens(s, tokens) == s \cup {tokens[i] : i \in 1..Len(tokens)}

\* A Set is [type |-> "TypeVec" or "TypeDSet", v |-> the Vec or the DashSet].
TypeVec(v) == [type |-> "TypeVec", v |-> v]
TypeDSet(s) == [type |-> "TypeDSet", v |-> s]

AddTokens(all_tokens, tokens) ==
    IF all_tokens.type = "TypeVec"
    THEN TypeVec(VecAddTokens(all_tokens.v, tokens, 1))
    ELSE TypeDSet(DSetAddTokens(all_tokens.v, tokens))

\* lines 201-204
Last1(tokens) ==
    IF Len(tokens) = 0 THEN None ELSE Some(tokens[Len(tokens)])

\* Last2 with the one-token case reading the only token.
Last2OneToken(tokens) ==
    IF Len(tokens) = 0 THEN None
    ELSE IF Len(tokens) = 1 THEN Some(tokens[1])
    ELSE Some(tokens[Len(tokens) - 1])

\* lines 205-209
Last2(tokens) ==
    IF Len(tokens) = 0 THEN None
    ELSE IF Len(tokens) = 1 THEN None
    ELSE Some(tokens[Len(tokens) - 1])

\* Tokens2 without the lookahead token.
Tokens2NoLookahead(prev1, tokens, next1) ==
    IF prev1 = None THEN tokens ELSE <<Unwrap(prev1)>> \o tokens

\* lines 211-218
Tokens2(prev1, tokens, next1) ==
    LET tokens2_ == IF prev1 = None THEN tokens ELSE <<Unwrap(prev1)>> \o tokens
    IN  IF next1 = None THEN tokens2_ ELSE Append(tokens2_, Unwrap(next1))

\* Tokens3 without the second carry token.
Tokens3NoPrev2(prev2, tokens2, next2) ==
    IF next2 = None THEN tokens2 ELSE Append(tokens2, Unwrap(next2))

\* lines 235-242
Tokens3(prev2, tokens2, next2) ==
    LET tokens3_ == IF prev2 = None THEN tokens2 ELSE <<Unwrap(prev2)>> \o tokens2
    IN  IF next2 = None THEN tokens3_ ELSE Append(tokens3_, Unwrap(next2))

\* format!("{}^{}", ..) and format!("{}^{}^{}", ..)
Format2(a, b) == a \o <<"^">> \o b
Format3(a, b, c) == a \o <<"^">> \o b \o <<"^">> \o c

\* AddCount as a store of the value that forgets the count already there.
AddCountLost(m, key, value) ==
    [k \in (DOMAIN m) \cup {key} |-> IF k = key THEN value ELSE m[k]]

\* *m.entry(key).or_default() += value
AddCount(m, key, value) ==
    [k \in (DOMAIN m) \cup {key} |->
        IF k = key THEN (IF key \in DOMAIN m THEN m[key] ELSE 0) + value ELSE m[k]]

\* CountDoubles stopping one window early.
RECURSIVE CountDoublesShort(_, _, _)
CountDoublesShort(m, tokens2, i) ==
    IF i + 2 > Len(tokens2) THEN m
    ELSE CountDoublesShort(AddCount(m, Format2(tokens2[i], tokens2[i + 1]), 1),
                           tokens2, i + 1)

\* lines 220-233: for doubles in tokens2.windows(2) { entry += 1 }
RECURSIVE CountDoubles(_, _, _)
CountDoubles(m, tokens2, i) ==
    IF i + 1 > Len(tokens2) THEN m
    ELSE CountDoubles(AddCount(m, Format2(tokens2[i], tokens2[i + 1]), 1), tokens2, i + 1)

\* lines 243-256: for triples in tokens3.windows(3) { entry += 1 }
RECURSIVE CountTriples(_, _, _)
CountTriples(m, tokens3, i) ==
    IF i + 2 > Len(tokens3) THEN m
    ELSE CountTriples(AddCount(m, Format3(tokens3[i], tokens3[i + 1], tokens3[i + 2]), 1),
                      tokens3, i + 1)

\* process_dictionary_builder_line without the early return of lines 188-190.
process_dictionary_builder_lineNoReturn(line, lookahead_line, regexps, dbl_, trpl_, all_tokens, prev1, prev2) ==
    LET next   == NextTokens(lookahead_line, regexps)
        tokens == token_splitter(line, regexps)
        tokens2 == Tokens2(prev1, tokens, next[1])
        tokens3 == Tokens3(prev2, tokens2, next[2])
    IN  [dbl |-> CountDoubles(dbl_, tokens2, 1),
         trpl |-> CountTriples(trpl_, tokens3, 1),
         all_token_list |-> AddTokens(all_tokens, tokens),
         prev1 |-> Last1(tokens), prev2 |-> Last2(tokens)]

\* The tables and carry after the call: [dbl, trpl, all_token_list, prev1, prev2],
\* prev1 and prev2 being the returned pair.
process_dictionary_builder_line(line, lookahead_line, regexps, dbl_, trpl_, all_tokens, prev1, prev2) ==
    LET next   == NextTokens(lookahead_line, regexps)
        tokens == token_splitter(line, regexps)
        tokens2 == Tokens2(prev1, tokens, next[1])
        tokens3 == Tokens3(prev2, tokens2, next[2])
    IN  IF tokens = <<>>
        THEN [dbl |-> dbl_, trpl |-> trpl_, all_token_list |-> all_tokens,
              prev1 |-> None, prev2 |-> None]
        ELSE [dbl |-> CountDoubles(dbl_, tokens2, 1),
              trpl |-> CountTriples(trpl_, tokens3, 1),
              all_token_list |-> AddTokens(all_tokens, tokens),
              prev1 |-> Last1(tokens), prev2 |-> Last2(tokens)]

(***************************************************************************)
(* Helpers of the workers and orchestrators.                               *)
(***************************************************************************)
Max(a, b) == IF a >= b THEN a ELSE b
Min(a, b) == IF a <= b THEN a ELSE b

\* line 288 / 386: (vec_lines.len() / num_workers).max(1)
ChunkSize(n, w) == Max(n \div w, 1)

\* Chunks leaving out the lines after the last full chunk.
ChunksDropTail(v, size) ==
    [i \in 1..(Len(v) \div size) |-> SubSeq(v, (i - 1) * size + 1, i * size)]

\* slice::chunks(size): consecutive slices of `size` elements, the last one shorter
\* when size does not divide the length; none for an empty slice.
Chunks(v, size) ==
    [i \in 1..((Len(v) + size - 1) \div size) |->
        SubSeq(v, (i - 1) * size + 1, Min(i * size, Len(v)))]

\* ReadLines collecting the lines whether or not the file opened.
ReadLinesUnchecked(f) == SelectSeq(f.lines, LAMBDA l : l.decodes)

\* lines 269-278 / 364-376: the decodable lines of the file, in order; none when
\* the file cannot be opened.
ReadLines(f) ==
    IF f.opens THEN SelectSeq(f.lines, LAMBDA l : l.decodes) ELSE <<>>

\* DashMap::clone / DashSet::clone (lines 393-395): a new map holding a copy of
\* the entries; the clone and the original share nothing.
DashClone(m) == m

\* MergeEntry as an insert that overwrites the count.
MergeEntryOverwrite(dst, key, value) ==
    [k \in (DOMAIN dst) \cup {key} |-> IF k = key THEN value ELSE dst[k]]

\* lines 315, 318 / 416, 419: *dst.entry(key).or_default() += value
MergeEntry(dst, key, value) == AddCount(dst, key, value)

\* lines 314-319 / 415-420: for (key, value) in src { .. }
RECURSIVE MergeCounts(_, _, _)
MergeCounts(dst, src, keys) ==
    IF keys = {} THEN dst
    ELSE LET key == CHOOSE k \in keys : TRUE
         IN  MergeCounts(MergeEntry(dst, key, src[key]), src, keys \ {key})

\* MergeMap running the loop over the received map twice.
MergeMapTwice(dst, src) == MergeCounts(MergeCounts(dst, src, DOMAIN src), src, DOMAIN src)

MergeMap(dst, src) == MergeCounts(dst, src, DOMAIN src)

\* PushAll as an assignment of the received Vec.
PushAllAssign(dst, v) == v

\* lines 320-322: for token in v { all_token_list.push(token) }
PushAll(dst, v) == dst \o v

\* InsertAll as an assignment of the received DashSet.
InsertAllAssign(dst, s) == s

\* lines 421-423: for token in s { all_token_list.insert(token) }
InsertAll(dst, s) == dst \cup s

\* slice::sort_unstable on strings: the elements in non-decreasing byte order.
RECURSIVE InsertSorted(_, _)
InsertSorted(sorted, x) ==
    IF sorted = <<>> THEN <<x>>
    ELSE IF StrLess(Head(sorted), x) THEN <<Head(sorted)>> \o InsertSorted(Tail(sorted), x)
    ELSE <<x>> \o sorted

RECURSIVE SortFrom(_, _, _)
SortFrom(v, i, acc) ==
    IF i > Len(v) THEN acc ELSE SortFrom(v, i + 1, InsertSorted(acc, v[i]))

sort_unstable(v) == SortFrom(v, 1, <<>>)

\* Vec::dedup: drops every element equal to the one just before it.
RECURSIVE DedupFrom(_, _, _)
DedupFrom(v, i, acc) ==
    IF i > Len(v) THEN acc
    ELSE DedupFrom(v, i + 1,
                   IF acc # <<>> /\ acc[Len(acc)] = v[i] THEN acc ELSE Append(acc, v[i]))

\* dedup left out.
dedupSkipped(v) == v

dedup(v) == DedupFrom(v, 1, <<>>)

\* The orders in which iterating a DashSet may yield its elements.
RECURSIVE Orders(_)
Orders(S) ==
    IF S = {} THEN {<<>>}
    ELSE UNION {{<<x>> \o o : o \in Orders(S \ {x})} : x \in S}

\* One worker's locals at the start of worker (lines 331-336) or worker_conc
\* (lines 440-443, the tables being the clones handed over).
NewJob(blocks, v, dbl_clone, trpl_clone, dset_clone) ==
    [blocks |-> blocks, pos |-> 1, state |-> "queued",
     prev1 |-> None, prev2 |-> None,
     dbl |-> IF v = "single" THEN EmptyMap ELSE dbl_clone,
     trpl |-> IF v = "single" THEN EmptyMap ELSE trpl_clone,
     all_token_list |-> IF v = "single" THEN TypeVec(<<>>) ELSE TypeDSet(dset_clone)]

\* WorkerLineStep handing every line an empty carry.
WorkerLineStepNoCarry(job) ==
    LET ip == job.blocks[job.pos]
        lookahead == IF job.pos < Len(job.blocks) THEN Some(job.blocks[job.pos + 1])
                     ELSE None
        r == process_dictionary_builder_line(ip, lookahead, censored_regexps, job.dbl,
                                             job.trpl, job.all_token_list, None, None)
    IN  [job EXCEPT !.pos = @ + 1, !.dbl = r.dbl, !.trpl = r.trpl,
                    !.all_token_list = r.all_token_list,
                    !.prev1 = r.prev1, !.prev2 = r.prev2]

\* One iteration of the loop of worker / worker_conc (lines 339-351 / 446-457):
\* the line at lp.next() with lp.peek() as lookahead.
WorkerLineStep(job) ==
    LET ip == job.blocks[job.pos]
        lookahead == IF job.pos < Len(job.blocks) THEN Some(job.blocks[job.pos + 1])
                     ELSE None
        r == process_dictionary_builder_line(ip, lookahead, censored_regexps, job.dbl,
                                             job.trpl, job.all_token_list, job.prev1,
                                             job.prev2)
    IN  [job EXCEPT !.pos = @ + 1, !.dbl = r.dbl, !.trpl = r.trpl,
                    !.all_token_list = r.all_token_list,
                    !.prev1 = r.prev1, !.prev2 = r.prev2]

\* The value worker / worker_conc returns (lines 352 / 458).
WorkerResult(job) ==
    [dbl |-> job.dbl, trpl |-> job.trpl, all_token_list |-> job.all_token_list]

(***************************************************************************)
(* Inputs.                                                                 *)
(***************************************************************************)
\* The lines an input file is made of: an undecodable line, a line the schema
\* does not match, and lines whose content is "a" and "a^a  a 7".
FileLines ==
    { Undecodable,
      Line(FALSE, <<>>),
      Line(TRUE, <<"a">>),
      Line(TRUE, <<"a", "^", "a", " ", " ", "a", " ", "7">>) }

RECURSIVE SeqsUpTo(_, _)
SeqsUpTo(S, n) ==
    IF n = 0 THEN {<<>>}
    ELSE LET shorter == SeqsUpTo(S, n - 1)
         IN  shorter \cup {Append(q, x) : q \in {r \in shorter : Len(r) = n - 1}, x \in S}

Files == {[opens |-> o, lines |-> l] : o \in BOOLEAN, l \in SeqsUpTo(FileLines, MaxLines)}

(***************************************************************************)
(* dictionary_builder (lines 260-328) and dictionary_builder_conc          *)
(* (lines 355-438), with the pool's threads running worker / worker_conc.  *)
(***************************************************************************)
Init ==
    /\ variant \in {"single", "conc"}
    /\ file \in Files
    /\ num_workers \in 1..MaxWorkers
    /\ pc = "load"
    /\ vec_lines = <<>>
    /\ chunks = <<>>
    /\ next_chunk = 1
    /\ jobs = <<>>
    /\ chan = <<>>
    /\ dbl = EmptyMap
    /\ trpl = EmptyMap
    /\ all_token_list = <<>>
    /\ dset = {}
    /\ ret = None
    /\ call = None
    /\ sent = <<>>

\* lines 265-288 / 359-386: load the file, size the pool, open the channel, cut the chunks.
Load ==
    /\ pc = "load"
    /\ vec_lines' = ReadLines(file)
    /\ chunks' = Chunks(vec_lines', ChunkSize(Len(vec_lines'), num_workers))
    /\ next_chunk' = 1
    /\ pc' = "dispatch"
    /\ UNCHANGED <<variant, file, num_workers, jobs, chan, dbl, trpl, all_token_list,
                   dset, ret, call, sent>>

\* lines 291-298 / 389-399: one iteration of `for chunk in chunks`: scope.execute(..).
Dispatch ==
    /\ pc = "dispatch"
    /\ next_chunk <= Len(chunks)
    /\ jobs' = Append(jobs, NewJob(chunks[next_chunk], variant, DashClone(dbl),
                                   DashClone(trpl), DashClone(dset)))
    /\ next_chunk' = next_chunk + 1
    /\ UNCHANGED <<variant, file, num_workers, pc, vec_lines, chunks, chan, dbl, trpl,
                   all_token_list, dset, ret, call, sent>>

Running == {j \in 1..Len(jobs) : jobs[j].state = "running"}
Queued == {j \in 1..Len(jobs) : jobs[j].state = "queued"}

\* StartJob in a pool that keeps one of its threads from taking closures.
StartJobStarved(j) ==
    /\ j \in Queued
    /\ \A i \in Queued : j <= i
    /\ Cardinality(Running) < num_workers - 1
    /\ jobs' = [jobs EXCEPT ![j].state = "running"]
    /\ UNCHANGED <<variant, file, num_workers, pc, vec_lines, chunks, next_chunk, chan,
                   dbl, trpl, all_token_list, dset, ret, call, sent>>

\* An idle thread of the pool (ThreadPool::new(num_workers)) takes the oldest queued closure.
StartJob(j) ==
    /\ j \in Queued
    /\ \A i \in Queued : j <= i
    /\ Cardinality(Running) < num_workers
    /\ jobs' = [jobs EXCEPT ![j].state = "running"]
    /\ UNCHANGED <<variant, file, num_workers, pc, vec_lines, chunks, next_chunk, chan,
                   dbl, trpl, all_token_list, dset, ret, call, sent>>

\* WorkerLine keeping the carry across a line that returned (None, None).
WorkerLineKeepCarry(j) ==
    /\ j \in Running
    /\ jobs[j].pos <= Len(jobs[j].blocks)
    /\ LET step == WorkerLineStep(jobs[j])
       IN  jobs' = [jobs EXCEPT ![j] =
                       IF step.prev1 = None
                       THEN [step EXCEPT !.prev1 = jobs[j].prev1, !.prev2 = jobs[j].prev2]
                       ELSE step]
    /\ UNCHANGED <<variant, file, num_workers, pc, vec_lines, chunks, next_chunk, chan,
                   dbl, trpl, all_token_list, dset, ret, call, sent>>

\* lines 339-351 / 446-457: the worker processes its next line.
WorkerLine(j) ==
    /\ j \in Running
    /\ jobs[j].pos <= Len(jobs[j].blocks)
    /\ jobs' = [jobs EXCEPT ![j] = WorkerLineStep(jobs[j])]
    /\ UNCHANGED <<variant, file, num_workers, pc, vec_lines, chunks, next_chunk, chan,
                   dbl, trpl, all_token_list, dset, ret, call, sent>>

\* lines 296 / 397: the worker returns and the closure sends its result.
WorkerSend(j) ==
    /\ j \in Running
    /\ jobs[j].pos > Len(jobs[j].blocks)
    /\ chan' = Append(chan, WorkerResult(jobs[j]))
    /\ jobs' = [jobs EXCEPT ![j].state = "sent"]
    /\ sent' = Append(sent, j)
    /\ UNCHANGED <<variant, file, num_workers, pc, vec_lines, chunks, next_chunk,
                   dbl, trpl, all_token_list, dset, ret, call>>

\* Join not waiting for the workers.
JoinEarly ==
    /\ pc = "dispatch"
    /\ next_chunk > Len(chunks)
    /\ pc' = "drain"
    /\ UNCHANGED <<variant, file, num_workers, vec_lines, chunks, next_chunk, jobs, chan,
                   dbl, trpl, all_token_list, dset, ret, call, sent>>

\* lines 299-302 / 400-403: pool.join() returns once no closure is queued or
\* running; the scope ends and tx is dropped.
Join ==
    /\ pc = "dispatch"
    /\ next_chunk > Len(chunks)
    /\ \A j \in 1..Len(jobs) : jobs[j].state = "sent"
    /\ pc' = "drain"
    /\ UNCHANGED <<variant, file, num_workers, vec_lines, chunks, next_chunk, jobs, chan,
                   dbl, trpl, all_token_list, dset, ret, call, sent>>

\* lines 304-324 / 405-424: one iteration of `for received in rx`.
Receive ==
    /\ pc = "drain"
    /\ chan # <<>>
    /\ LET received == Head(chan)
       IN  /\ dbl' = MergeMap(dbl, received.dbl)
           /\ trpl' = MergeMap(trpl, received.trpl)
           /\ all_token_list' = IF variant = "single"
                                THEN PushAll(all_token_list, received.all_token_list.v)
                                ELSE all_token_list
           /\ dset' = IF variant = "single" THEN dset
                      ELSE InsertAll(dset, received.all_token_list.v)
    /\ chan' = Tail(chan)
    /\ UNCHANGED <<variant, file, num_workers, pc, vec_lines, chunks, next_chunk, jobs,
                   ret, call, sent>>

\* lines 325-327 / 435-437
Finish(v) == dedup(sort_unstable(v))

\* lines 325-327: the receive loop has ended; sort, dedup and return.
Return ==
    /\ pc = "drain"
    /\ chan = <<>>
    /\ variant = "single"
    /\ all_token_list' = Finish(all_token_list)
    /\ ret' = Some([dbl |-> dbl, trpl |-> trpl, all_token_list |-> all_token_list'])
    /\ pc' = "done"
    /\ UNCHANGED <<variant, file, num_workers, vec_lines, chunks, next_chunk, jobs, chan,
                   dbl, trpl, dset, call, sent>>

\* lines 426-437: project the shared tables into plain ones, the DashSet into a
\* Vec (in the set's iteration order), sort, dedup and return.
ReturnConc ==
    /\ pc = "drain"
    /\ chan = <<>>
    /\ variant = "conc"
    /\ \E order \in Orders(dset) :
          all_token_list' = Finish(PushAll(all_token_list, order))
    /\ ret' = Some([dbl |-> MergeMap(EmptyMap, dbl), trpl |-> MergeMap(EmptyMap, trpl),
                    all_token_list |-> all_token_list'])
    /\ pc' = "done"
    /\ UNCHANGED <<variant, file, num_workers, vec_lines, chunks, next_chunk, jobs, chan,
                   dbl, trpl, dset, call, sent>>

Next ==
    \/ Load
    \/ Dispatch
    \/ \E j \in 1..Len(jobs) : StartJob(j)
    \/ \E j \in 1..Len(jobs) : WorkerLine(j)
    \/ \E j \in 1..Len(jobs) : WorkerSend(j)
    \/ Join
    \/ Receive
    \/ Return
    \/ ReturnConc

Spec == Init /\ [][Next]_vars

(***************************************************************************)
(* The functions the program computes, for stating the claims.             *)
(***************************************************************************)
\* worker / worker_conc run to completion on one job (lines 330-353 / 440-459).
RECURSIVE worker(_)
worker(job) ==
    IF job.pos > Len(job.blocks) THEN WorkerResult(job) ELSE worker(WorkerLineStep(job))

\* The orchestrator of variant v when the partial results arrive in chunk order:
\* the accumulators after the results of the chunks cs[i..] have been merged.
RECURSIVE MergeInOrder(_, _, _, _)
MergeInOrder(v, cs, i, acc) ==
    IF i > Len(cs) THEN acc
    ELSE LET r == worker(NewJob(cs[i], v, DashClone(EmptyMap), DashClone(EmptyMap),
                                DashClone({})))
         IN  MergeInOrder(v, cs, i + 1,
                 [dbl |-> MergeMap(acc.dbl, r.dbl),
                  trpl |-> MergeMap(acc.trpl, r.trpl),
                  all_token_list |-> IF v = "single"
                                     THEN PushAll(acc.all_token_list, r.all_token_list.v)
                                     ELSE acc.all_token_list,
                  dset |-> IF v = "single" THEN acc.dset
                           ELSE InsertAll(acc.dset, r.all_token_list.v)])

\* dictionary_builder (v = "single") or dictionary_builder_conc (v = "conc") on
\* the loaded lines with w workers, results arriving in chunk order.
InOrderResult(v, lines, w) ==
    LET acc == MergeInOrder(v, Chunks(lines, ChunkSize(Len(lines), w)), 1,
                   [dbl |-> EmptyMap, trpl |-> EmptyMap, all_token_list |-> <<>>,
                    dset |-> {}])
    IN  IF v = "single"
        THEN [dbl |-> acc.dbl, trpl |-> acc.trpl,
              all_token_list |-> Finish(acc.all_token_list)]
        ELSE [dbl |-> MergeMap(EmptyMap, acc.dbl), trpl |-> MergeMap(EmptyMap, acc.trpl),
              all_token_list |->
                  Finish(PushAll(<<>>, CHOOSE o \in Orders(acc.dset) : TRUE))]

Returned == pc = "done"
Result == Unwrap(ret)
Lines == ReadLines(file)

\* The token sequence of each loaded line.
TokensOf(lines) == [i \in 1..Len(lines) |-> token_splitter(lines[i], censored_regexps)]

Range(q) == {q[i] : i \in 1..Len(q)}

\* The tokens of all lines.
TokenSet(lines) == UNION {Range(TokensOf(lines)[i]) : i \in 1..Len(lines)}

RECURSIVE Concat(_, _)
Concat(qs, i) == IF i > Len(qs) THEN <<>> ELSE qs[i] \o Concat(qs, i + 1)

\* The logical token stream: the tokens of all lines, in file order.
Stream(lines) == Concat(TokensOf(lines), 1)

\* Number of positions of q at which an adjacent pair formats to key k.
PairCount(q, k) == Cardinality({i \in 1..(Len(q) - 1) : Format2(q[i], q[i + 1]) = k})

RECURSIVE SumOver(_, _)
SumOver(f, S) ==
    IF S = {} THEN 0
    ELSE LET x == CHOOSE y \in S : TRUE IN f[x] + SumOver(f, S \ {x})

\* Occurrences of k as an adjacent pair inside the token sequence of one line.
InLineCount(lines, k) ==
    LET t == TokensOf(lines)
    IN  SumOver([i \in 1..Len(lines) |-> PairCount(t[i], k)], 1..Len(lines))

\* Consecutive lines, both with tokens, whose (last token, first token) is k.
CrossLineCount(lines, k) ==
    LET t == TokensOf(lines)
    IN  Cardinality({i \in 1..(Len(lines) - 1) :
            /\ t[i] # <<>>
            /\ t[i + 1] # <<>>
            /\ Format2(t[i][Len(t[i])], t[i + 1][1]) = k})

Get(m, k) == IF k \in DOMAIN m THEN m[k] ELSE 0
Abs(x) == IF x < 0 THEN 0 - x ELSE x

\* Sum over all keys of |a(k) - b(k)|, absent keys counting 0.
Distance(a, b) ==
    LET keys == (DOMAIN a) \cup (DOMAIN b)
    IN  SumOver([k \in keys |-> Abs(Get(a, k) - Get(b, k))], keys)

StrictlyIncreasing(v) == \A i \in 1..(Len(v) - 1) : StrLess(v[i], v[i + 1])

CeilDiv(n, w) == (n + w - 1) \div w

(***************************************************************************)
(* Claims.                                                                 *)
(***************************************************************************)
OutOfOrder == \E i, j \in 1..Len(sent) : i < j /\ sent[i] > sent[j]

\* C1: whichever entry point is invoked (parse_raw_single or parse_raw_conc),
\* in every interleaving of the workers the returned bigram table, trigram
\* table and vocabulary are those the shard-local variant returns for the same
\* lines and worker count; so the two variants return the same triple.
C1_VariantsAgree ==
    Returned => Result = InOrderResult("single", Lines, num_workers)

\* The shared-map variant has returned after two or more workers contributed tokens.
C1_Witness ==
    /\ Returned
    /\ variant = "conc"
    /\ Cardinality({j \in 1..Len(jobs) : jobs[j].all_token_list.v # {}}) >= 2
    /\ DOMAIN Result.trpl # {}

\* C2 as stated: with one worker, the count of every key of the returned bigram
\* table is at least 1 and equals the number of positions at which that pair
\* occurs in the logical token stream.
C2_StreamCount ==
    (Returned /\ num_workers = 1) =>
        \A k \in DOMAIN Result.dbl :
            /\ Result.dbl[k] >= 1
            /\ Result.dbl[k] = PairCount(Stream(Lines), k)

\* C2 amended: with one worker, the count of every key of the returned bigram
\* table is at least 1 and equals the number of positions at which the pair
\* occurs inside the token sequence of a line, plus twice the number of pairs
\* of consecutive loaded lines, both with tokens, whose last and first token
\* form it.
C2_LineCounts ==
    (Returned /\ num_workers = 1) =>
        \A k \in DOMAIN Result.dbl :
            /\ Result.dbl[k] >= 1
            /\ Result.dbl[k] = InLineCount(Lines, k) + 2 * CrossLineCount(Lines, k)

\* A one-worker run returned a key that occurs both inside a line and across two lines.
C2_Witness ==
    /\ Returned
    /\ num_workers = 1
    /\ \E k \in DOMAIN Result.dbl :
          InLineCount(Lines, k) >= 1 /\ CrossLineCount(Lines, k) >= 1

C4_VocabularyComplete ==
    Returned =>
        /\ Range(Result.all_token_list) = TokenSet(Lines)
        /\ Len(Result.all_token_list) = Cardinality(TokenSet(Lines))

\* A run with several chunks returned, its first and last chunk holding different tokens.
C4_Witness ==
    /\ Returned
    /\ Len(jobs) >= 2
    /\ TokenSet(jobs[1].blocks) # {}
    /\ TokenSet(jobs[Len(jobs)].blocks) \ TokenSet(jobs[1].blocks) # {}

\* C5 as stated: for W in {1, 2, 4, 8} the tables differ from those of the
\* one-worker run by at most 2*(W-1) on the bigram keys and 4*(W-1) on the
\* trigram keys.
C5_BoundaryBound ==
    (Returned /\ num_workers \in {1, 2, 4, 8}) =>
        LET one == InOrderResult(variant, Lines, 1)
        IN  /\ Distance(Result.dbl, one.dbl) <= 2 * (num_workers - 1)
            /\ Distance(Result.trpl, one.trpl) <= 4 * (num_workers - 1)

\* C6 as stated: the lines are cut into chunks of size ceil(n/W) (at least 1),
\* so at most W chunks are dispatched.
C6_CeilChunks ==
    pc # "load" =>
        /\ chunks = Chunks(vec_lines, Max(CeilDiv(Len(vec_lines), num_workers), 1))
        /\ Len(chunks) <= num_workers

\* C7: for either variant the returned triple is the one obtained when the
\* partial results arrive in chunk order, whatever order they arrived in.
C7_OrderIrrelevant ==
    Returned => Result = InOrderResult(variant, Lines, num_workers)

\* Two workers' differing results were received in the reverse of chunk order.
C7_Witness ==
    /\ Returned
    /\ \E i, j \in 1..Len(sent) :
          /\ i < j
          /\ sent[i] > sent[j]
          /\ DOMAIN jobs[sent[i]].dbl # {}
          /\ jobs[sent[i]].dbl # jobs[sent[j]].dbl

(***************************************************************************)
(* A single call of process_dictionary_builder_line on arbitrary           *)
(* arguments, as the unit tests at lines 461-510 make it.                  *)
(***************************************************************************)
\* Lines with content "a", "a^a  a 7" and "b a b a", a line with blank content
\* and a line the schema does not match.
CallLines ==
    { Line(FALSE, <<>>),
      Line(TRUE, <<" ">>),
      Line(TRUE, <<"a">>),
      Line(TRUE, <<"a", "^", "a", " ", " ", "a", " ", "7">>),
      Line(TRUE, <<"b", " ", "a", " ", "b", " ", "a">>) }

CallCarries == {None, Some(<<"a">>), Some(<<"b">>)}

\* Tables the call starts from: empty, or already holding counts.
CallTables ==
    { [dbl |-> EmptyMap, trpl |-> EmptyMap],
      [dbl |-> (<<"b", "^", "a">> :> 3) @@ (<<"c", "^", "d">> :> 1),
       trpl |-> (<<"b", "^", "a", "^", "b">> :> 2)] }

\* The token container the call starts from: a Vec or a DashSet, empty or holding "b".
CallSet(type, filled) ==
    IF type = "TypeVec"
    THEN TypeVec(IF filled THEN << <<"b">> >> ELSE <<>>)
    ELSE TypeDSet(IF filled THEN {<<"b">>} ELSE {})

InitLine ==
    /\ variant = "single"
    /\ file = [opens |-> FALSE, lines |-> <<>>]
    /\ num_workers = 1
    /\ pc = "line"
    /\ vec_lines = <<>>
    /\ chunks = <<>>
    /\ next_chunk = 1
    /\ jobs = <<>>
    /\ chan = <<>>
    /\ dbl = EmptyMap
    /\ trpl = EmptyMap
    /\ all_token_list = <<>>
    /\ dset = {}
    /\ ret = None
    /\ sent = <<>>
    /\ \E line \in CallLines, lookahead \in {None} \cup {Some(l) : l \in CallLines},
          prev1 \in CallCarries, prev2 \in CallCarries, t \in CallTables,
          type \in {"TypeVec", "TypeDSet"}, filled \in BOOLEAN :
          call = Some([line |-> line, lookahead_line |-> lookahead, prev1 |-> prev1,
                       prev2 |-> prev2, dbl |-> t.dbl, trpl |-> t.trpl,
                       all_token_list |-> CallSet(type, filled), out |-> None])

\* The call is made and returns.
CallLine ==
    /\ pc = "line"
    /\ call # None
    /\ Unwrap(call).out = None
    /\ LET c == Unwrap(call)
       IN  call' = Some([c EXCEPT !.out =
                Some(process_dictionary_builder_line(c.line, c.lookahead_line,
                         censored_regexps, c.dbl, c.trpl, c.all_token_list,
                         c.prev1, c.prev2))])
    /\ UNCHANGED <<variant, file, num_workers, pc, vec_lines, chunks, next_chunk, jobs,
                   chan, dbl, trpl, all_token_list, dset, ret, sent>>

NextLine == CallLine

SpecLine == InitLine /\ [][NextLine]_vars

\* The call's arguments and, once it has returned, its results.
In == Unwrap(call)
Out == Unwrap(In.out)
CallReturned == call # None /\ In.out # None

\* T and L of the call: the tokens of the current and of the lookahead line.
T == token_splitter(In.line, censored_regexps)
L == IF In.lookahead_line = None THEN <<>>
     ELSE token_splitter(Unwrap(In.lookahead_line), censored_regexps)

\* B = [prev1?] ++ T ++ [L[0]?]
SeqB == In.prev1 \o T \o SubSeq(L, 1, Min(1, Len(L)))

\* C = [prev2?] ++ [prev1?] ++ T ++ [L[0]?] ++ [L[1]?]
SeqC == In.prev2 \o In.prev1 \o T \o SubSeq(L, 1, Min(2, Len(L)))

\* Number of positions of q at which a window of three formats to key k.
TripleCount(q, k) ==
    Cardinality({i \in 1..(Len(q) - 2) : Format3(q[i], q[i + 1], q[i + 2]) = k})

Keys2(q) == {Format2(q[i], q[i + 1]) : i \in 1..(Len(q) - 1)}
Keys3(q) == {Format3(q[i], q[i + 1], q[i + 2]) : i \in 1..(Len(q) - 2)}

\* C8: a call with non-empty T adds to each bigram key the number of windows
\* of B = [prev1?] ++ T ++ [L[0]?] that format to it, and changes no other key.
C8_BigramWindows ==
    (CallReturned /\ T # <<>>) =>
        /\ DOMAIN Out.dbl = (DOMAIN In.dbl) \cup Keys2(SeqB)
        /\ \A k \in DOMAIN Out.dbl : Out.dbl[k] = Get(In.dbl, k) + PairCount(SeqB, k)

\* A call with carry and lookahead returned, having raised a count the table
\* already held and one key twice.
C8_Witness ==
    /\ CallReturned
    /\ T # <<>>
    /\ In.prev1 # None
    /\ L # <<>>
    /\ \E k \in DOMAIN In.dbl : Out.dbl[k] >= In.dbl[k] + 2
    /\ \E k \in DOMAIN In.dbl : Out.dbl[k] = In.dbl[k]

\* C9: a call with non-empty T adds to each trigram key the number of windows
\* of three of C = [prev2?] ++ [prev1?] ++ T ++ [L[0]?] ++ [L[1]?] that format
\* to it, and changes no other key.
C9_TrigramWindows ==
    (CallReturned /\ T # <<>>) =>
        /\ DOMAIN Out.trpl = (DOMAIN In.trpl) \cup Keys3(SeqC)
        /\ \A k \in DOMAIN Out.trpl : Out.trpl[k] = Get(In.trpl, k) + TripleCount(SeqC, k)

\* A call with both carry tokens and two lookahead tokens returned, having
\* raised a count the trigram table already held.
C9_Witness ==
    /\ CallReturned
    /\ Len(T) >= 3
    /\ In.prev1 # None
    /\ In.prev2 # None
    /\ Len(L) >= 2
    /\ \E k \in DOMAIN In.trpl : Out.trpl[k] > In.trpl[k]

C11_EmptyLine ==
    (CallReturned /\ T = <<>>) =>
        /\ Out.prev1 = None
        /\ Out.prev2 = None
        /\ Out.dbl = In.dbl
        /\ Out.trpl = In.trpl
        /\ Out.all_token_list = In.all_token_list

\* A call on a matching line with blank content returned; it had a carry, a
\* lookahead line with two tokens and filled tables.
C11_Witness ==
    /\ CallReturned
    /\ In.line.captures
    /\ T = <<>>
    /\ In.prev1 # None
    /\ In.prev2 # None
    /\ Len(L) >= 2
    /\ DOMAIN In.dbl # {}
    /\ Out.prev1 = None

(***************************************************************************)
(* What a chunk's lines call for, stated from the lines' tokens alone.     *)
(***************************************************************************)
LastTokens(q, n) == SubSeq(q, Len(q) - Min(n, Len(q)) + 1, Len(q))
FirstTokens(q, n) == SubSeq(q, 1, Min(n, Len(q)))

\* The token sequences of the lines of a chunk, from line i on.
RECURSIVE TokensFrom(_, _)
TokensFrom(blocks, i) ==
    IF i > Len(blocks) THEN <<>>
    ELSE <<token_splitter(blocks[i], censored_regexps)>> \o TokensFrom(blocks, i + 1)

\* The tokens of line i of the chunk with n tokens of context on each side,
\* taken from the lines just before and just after it in the same chunk; t
\* holds the token sequences of the chunk's lines.
Context(t, i, n) ==
    IF t[i] = <<>> THEN <<>>
    ELSE (IF i > 1 THEN LastTokens(t[i - 1], n) ELSE <<>>)
             \o t[i]
             \o (IF i < Len(t) THEN FirstTokens(t[i + 1], n) ELSE <<>>)

\* The contexts of lines i..n of the chunk.
RECURSIVE ContextsFrom(_, _, _, _)
ContextsFrom(t, i, n, m) ==
    IF i > n THEN <<>> ELSE <<Context(t, i, m)>> \o ContextsFrom(t, i + 1, n, m)

\* The bigram increments called for by the first n lines of the chunk: for
\* each key, the number of windows of the lines' contexts that format to it.
ChunkTable2(blocks, n) ==
    LET c == ContextsFrom(TokensFrom(blocks, 1), 1, n, 1)
        keys == UNION {Keys2(c[i]) : i \in 1..n}
    IN  [k \in keys |-> SumOver([i \in 1..n |-> PairCount(c[i], k)], 1..n)]

\* The trigram increments called for by the first n lines of the chunk.
ChunkTable3(blocks, n) ==
    LET c == ContextsFrom(TokensFrom(blocks, 1), 1, n, 2)
        keys == UNION {Keys3(c[i]) : i \in 1..n}
    IN  [k \in keys |-> SumOver([i \in 1..n |-> TripleCount(c[i], k)], 1..n)]

\* The carry after line n of the chunk: its last and second-last token.
CarryAfter(blocks, n) ==
    IF n = 0 THEN <<None, None>>
    ELSE LET t == TokensOf(blocks)[n]
         IN  <<IF Len(t) >= 1 THEN Some(t[Len(t)]) ELSE None,
               IF Len(t) >= 2 THEN Some(t[Len(t) - 1]) ELSE None>>

\* The worker has processed a prefix of its chunk in file order and its carry
\* is the one its previous line returned.
JobCarryAsExpected(job, chunk) ==
    LET n == job.pos - 1
    IN  /\ job.blocks = chunk
        /\ n \in 0..Len(job.blocks)
        /\ <<job.prev1, job.prev2>> = CarryAfter(job.blocks, n)

\* The worker's tables hold what the lines it has processed call for with
\* carry and lookahead taken inside the chunk only.
JobCountsAsExpected(job) ==
    /\ job.dbl = ChunkTable2(job.blocks, job.pos - 1)
    /\ job.trpl = ChunkTable3(job.blocks, job.pos - 1)

\* C12: whenever a worker is created or takes a step, it starts its chunk with
\* carry (None, None), passes each line the carry its previous line returned,
\* and counts only n-grams whose carry and lookahead come from lines of its own
\* chunk, never from a neighbouring chunk.
C12_NoCrossChunkContext ==
    [][\A j \in 1..Len(jobs') :
          (j > Len(jobs) \/ jobs'[j] # jobs[j]) =>
              /\ JobCarryAsExpected(jobs'[j], chunks'[j])
              /\ JobCountsAsExpected(jobs'[j])]_vars

\* Two neighbouring chunks of two lines each, all four lines with tokens, have
\* been processed to the end.
C12_Witness ==
    /\ Len(jobs) >= 2
    /\ jobs[1].state = "sent"
    /\ jobs[2].state = "sent"
    /\ Len(jobs[1].blocks) = 2
    /\ Len(jobs[2].blocks) = 2
    /\ \A j \in 1..2 : \A i \in 1..2 :
          token_splitter(jobs[j].blocks[i], censored_regexps) # <<>>
    /\ Len(token_splitter(jobs[1].blocks[1], censored_regexps)) >= 2

(***************************************************************************)
(* Runs on files whose lines each hold one token, as the fixture of        *)
(* test_parse_raw_linux (lines 524-546) does.                              *)
(***************************************************************************)
\* Lines with content "a", "b^c", "a^b" and "c".
OneTokenLines ==
    { Line(TRUE, <<"a">>),
      Line(TRUE, <<"b", "^", "c">>),
      Line(TRUE, <<"a", "^", "b">>),
      Line(TRUE, <<"c">>) }

InitOneToken ==
    /\ variant \in {"single", "conc"}
    /\ file \in {[opens |-> TRUE, lines |-> l] : l \in SeqsUpTo(OneTokenLines, MaxLines)}
    /\ num_workers = 1
    /\ pc = "load"
    /\ vec_lines = <<>>
    /\ chunks = <<>>
    /\ next_chunk = 1
    /\ jobs = <<>>
    /\ chan = <<>>
    /\ dbl = EmptyMap
    /\ trpl = EmptyMap
    /\ all_token_list = <<>>
    /\ dset = {}
    /\ ret = None
    /\ call = None
    /\ sent = <<>>

SpecOneToken == InitOneToken /\ [][Next]_vars

\* Every line yields exactly one token and the tokens are pairwise distinct.
DistinctOneTokenLines(lines) ==
    /\ \A i \in 1..Len(lines) : Len(TokensOf(lines)[i]) = 1
    /\ \A i, j \in 1..Len(lines) : i # j => TokensOf(lines)[i] # TokensOf(lines)[j]

\* The token of line i.
Tok(lines, i) == TokensOf(lines)[i][1]

ConsecutivePairs(lines) ==
    {Format2(Tok(lines, i), Tok(lines, i + 1)) : i \in 1..(Len(lines) - 1)}

ConsecutiveTriples(lines) ==
    {Format3(Tok(lines, i), Tok(lines, i + 1), Tok(lines, i + 2)) :
        i \in 1..(Len(lines) - 2)}

\* C13 as stated: one worker, one distinct token per line: the bigram table
\* holds exactly the pairs of consecutive lines, each with count 2, and the
\* trigram table exactly the triples of three consecutive lines, each with
\* count 1.
C13_TwoAndOne ==
    (Returned /\ num_workers = 1 /\ DistinctOneTokenLines(Lines)) =>
        /\ DOMAIN Result.dbl = ConsecutivePairs(Lines)
        /\ \A k \in DOMAIN Result.dbl : Result.dbl[k] = 2
        /\ DOMAIN Result.trpl = ConsecutiveTriples(Lines)
        /\ \A k \in DOMAIN Result.trpl : Result.trpl[k] = 1

\* C13 amended: the count of a bigram key is twice the number of pairs of
\* consecutive lines that format to it, and the count of a trigram key is the
\* number of triples of three consecutive lines that format to it.
C13_PerKey ==
    (Returned /\ num_workers = 1 /\ DistinctOneTokenLines(Lines)) =>
        /\ DOMAIN Result.dbl = ConsecutivePairs(Lines)
        /\ \A k \in DOMAIN Result.dbl :
              Result.dbl[k] =
                  2 * Cardinality({i \in 1..(Len(Lines) - 1) :
                                      Format2(Tok(Lines, i), Tok(Lines, i + 1)) = k})
        /\ DOMAIN Result.trpl = ConsecutiveTriples(Lines)
        /\ \A k \in DOMAIN Result.trpl :
              Result.trpl[k] =
                  Cardinality({i \in 1..(Len(Lines) - 2) :
                      Format3(Tok(Lines, i), Tok(Lines, i + 1), Tok(Lines, i + 2)) = k})

\* A one-worker run over four lines with distinct tokens returned, two of its
\* pairs of consecutive lines giving the same key and the others not.
C13_Witness ==
    /\ Returned
    /\ num_workers = 1
    /\ DistinctOneTokenLines(Lines)
    /\ Len(Lines) = 4
    /\ \E k \in DOMAIN Result.dbl : Result.dbl[k] = 4
    /\ \E k \in DOMAIN Result.dbl : Result.dbl[k] = 2
    /\ \E k \in DOMAIN Result.trpl : Result.trpl[k] = 1

\* The distinct tokens of a stream in the order of their first appearance.
FirstAppearance(stream) == VecAddTokens(<<>>, stream, 1)

\* C14: the vocabulary returned by the single-map variant lists the distinct
\* tokens in the order of their first appearance in the input lines.
C14_FirstAppearance ==
    (Returned /\ variant = "single") =>
        Result.all_token_list = FirstAppearance(Stream(Lines))

\* The increments each chunk calls for, chunk by chunk from chunk j on: the
\* bigram tables for m = 2, the trigram tables for m = 3.
RECURSIVE ChunkTablesFrom(_, _)
ChunkTablesFrom(j, m) ==
    IF j > Len(chunks) THEN <<>>
    ELSE <<IF m = 2 THEN ChunkTable2(chunks[j], Len(chunks[j]))
           ELSE ChunkTable3(chunks[j], Len(chunks[j]))>> \o ChunkTablesFrom(j + 1, m)

\* The sum over the tables of q of the count of key k.
CountIn(q, k) == SumOver([i \in 1..Len(q) |-> Get(q[i], k)], 1..Len(q))

\* The partial results not received yet.
PendingTables(m) == [i \in 1..Len(chan) |-> IF m = 2 THEN chan[i].dbl ELSE chan[i].trpl]

\* No increment is lost between the chunks' calls for them and the tables of q.
NoneLost(q, expected) ==
    /\ UNION {DOMAIN q[i] : i \in 1..Len(q)} = UNION {DOMAIN expected[j] : j \in 1..Len(expected)}
    /\ \A k \in UNION {DOMAIN q[i] : i \in 1..Len(q)} : CountIn(q, k) = CountIn(expected, k)

\* C15: in the shared-map variant no increment is lost: once all workers have
\* finished, in every interleaving of their steps, the count of each bigram
\* and trigram key (in the maps the workers filled and the orchestrator
\* collects) equals the number of increments performed on it.
C15_NoLostIncrement ==
    (variant = "conc" /\ pc = "drain" /\ Len(chan) = Len(jobs)) =>
        /\ NoneLost(PendingTables(2), ChunkTablesFrom(1, 2))
        /\ NoneLost(PendingTables(3), ChunkTablesFrom(1, 3))

\* Two workers of a pool of at least two threads have finished in the
\* opposite order of their dispatch, both having incremented the same bigram
\* key and the same trigram key, and nothing is merged yet.
C15_Witness ==
    /\ variant = "conc"
    /\ pc = "drain"
    /\ num_workers >= 2
    /\ Len(chan) = Len(jobs)
    /\ Len(sent) >= 2
    /\ sent[1] > sent[2]
    /\ \E k \in DOMAIN chan[1].dbl : k \in DOMAIN chan[2].dbl
    /\ \E k \in DOMAIN chan[1].trpl : k \in DOMAIN chan[2].trpl

\* Inputs for the runs checked for completion: a file that cannot be opened and
\* files of lines of content "a" (what a line holds does not change which
\* steps are taken, only what they count).
FairLines == {Line(TRUE, <<"a">>)}

InitFair ==
    /\ variant \in {"single", "conc"}
    /\ file \in {[opens |-> FALSE, lines |-> <<>>]}
                \cup {[opens |-> TRUE, lines |-> l] : l \in SeqsUpTo(FairLines, MaxLines)}
    /\ num_workers \in 1..MaxWorkers
    /\ pc = "load"
    /\ vec_lines = <<>>
    /\ chunks = <<>>
    /\ next_chunk = 1
    /\ jobs = <<>>
    /\ chan = <<>>
    /\ dbl = EmptyMap
    /\ trpl = EmptyMap
    /\ all_token_list = <<>>
    /\ dset = {}
    /\ ret = None
    /\ call = None
    /\ sent = <<>>

\* The orchestrator and the pool's threads keep being scheduled: some enabled
\* step is eventually taken.
SpecFair == InitFair /\ [][Next]_vars /\ WF_vars(Next)

\* Every dispatched chunk's worker has sent exactly one partial result.
EachSentOnce ==
    /\ Len(jobs) = Len(chunks)
    /\ Len(sent) = Len(jobs)
    /\ \A j \in 1..Len(jobs) :
          jobs[j].state = "sent" /\ Cardinality({i \in 1..Len(sent) : sent[i] = j}) = 1

\* C16: for every input and every worker count W >= 1 each orchestrator
\* variant runs to completion: every chunk's worker sends exactly one partial
\* result, the receive loop empties the channel and the call returns.
C16_Terminates == <>(Returned /\ EachSentOnce /\ chan = <<>>)

\* A call that dispatched more chunks than the pool has threads has returned.
C16_Witness ==
    /\ Returned
    /\ EachSentOnce
    /\ chan = <<>>
    /\ Len(jobs) > num_workers

\* C17: if the input file cannot be opened, no line is loaded, no chunk is
\* dispatched, and the call returns empty bigram and trigram tables and an
\* empty vocabulary.
C17_UnopenableEmpty ==
    ~file.opens =>
        /\ vec_lines = <<>>
        /\ chunks = <<>>
        /\ jobs = <<>>
        /\ Returned =>
              /\ Result.dbl = EmptyMap
              /\ Result.trpl = EmptyMap
              /\ Result.all_token_list = <<>>

\* A call on a file that cannot be opened, though it holds lines with tokens,
\* has returned.
C17_Witness ==
    /\ Returned
    /\ ~file.opens
    /\ Len(file.lines) >= 2
    /\ \E i \in 1..Len(file.lines) :
          file.lines[i].decodes /\ token_splitter(file.lines[i], censored_regexps) # <<>>

(***************************************************************************)
(* reverse_dict (lines 548-563), called on its own.                        *)
(***************************************************************************)
MaxCount == 2

\* The keys of the tables handed to reverse_dict.
DictKeys == {<<"a">>, <<"b">>, <<"a", "^", "b">>}

\* The frequency tables handed to reverse_dict.
Dicts == UNION {[K -> 1..MaxCount] : K \in SUBSET DictKeys}

\* ReverseStep replacing the bucket of a count it has seen before.
ReverseStepReplace(acc, key, val) ==
    IF val \in DOMAIN acc.reverse_d
    THEN [acc EXCEPT !.reverse_d = [acc.reverse_d EXCEPT ![val] = <<key>>]]
    ELSE [reverse_d |-> [v \in (DOMAIN acc.reverse_d) \cup {val} |->
                            IF v = val THEN <<key>> ELSE acc.reverse_d[v]],
          val_set |-> acc.val_set \cup {val}]

\* lines 554-560: the body of the loop over the entries of d.
ReverseStep(acc, key, val) ==
    IF val \in DOMAIN acc.reverse_d
    THEN [acc EXCEPT !.reverse_d = [acc.reverse_d EXCEPT ![val] = Append(@, key)]]
    ELSE [reverse_d |-> [v \in (DOMAIN acc.reverse_d) \cup {val} |->
                            IF v = val THEN <<key>> ELSE acc.reverse_d[v]],
          val_set |-> acc.val_set \cup {val}]

\* reverse_dict is called on a table d; d.iter() will visit the entries in an
\* order the HashMap chooses.
InitReverse ==
    /\ variant = "single"
    /\ file = [opens |-> FALSE, lines |-> <<>>]
    /\ num_workers = 1
    /\ pc = "reverse"
    /\ vec_lines = <<>>
    /\ chunks = <<>>
    /\ next_chunk = 1
    /\ jobs = <<>>
    /\ chan = <<>>
    /\ dbl = EmptyMap
    /\ trpl = EmptyMap
    /\ all_token_list = <<>>
    /\ dset = {}
    /\ ret = None
    /\ sent = <<>>
    /\ \E d \in Dicts : \E iter \in Orders(DOMAIN d) :
          call = Some([d |-> d, iter |-> iter, pos |-> 1,
                       acc |-> [reverse_d |-> EmptyMap, val_set |-> {}], out |-> None])

\* lines 553-561: one iteration of the loop.
ReverseIter ==
    /\ pc = "reverse"
    /\ LET c == Unwrap(call)
       IN  /\ c.out = None
           /\ c.pos <= Len(c.iter)
           /\ call' = Some([c EXCEPT !.acc = ReverseStep(c.acc, c.iter[c.pos],
                                                         c.d[c.iter[c.pos]]),
                                     !.pos = c.pos + 1])
    /\ UNCHANGED <<variant, file, num_workers, pc, vec_lines, chunks, next_chunk, jobs,
                   chan, dbl, trpl, all_token_list, dset, ret, sent>>

\* line 562: return (val_set, reverse_d)
ReverseReturn ==
    /\ pc = "reverse"
    /\ LET c == Unwrap(call)
       IN  /\ c.out = None
           /\ c.pos > Len(c.iter)
           /\ call' = Some([c EXCEPT !.out = Some(c.acc)])
    /\ UNCHANGED <<variant, file, num_workers, pc, vec_lines, chunks, next_chunk, jobs,
                   chan, dbl, trpl, all_token_list, dset, ret, sent>>

NextReverse == ReverseIter \/ ReverseReturn

SpecReverse == InitReverse /\ [][NextReverse]_vars

ReverseReturned == pc = "reverse" /\ Unwrap(call).out # None
ReverseIn == Unwrap(call).d
ReverseOut == Unwrap(Unwrap(call).out)

\* Occurrences of key k in the bucket of count v (none when v has no bucket).
InBucket(reverse_d, v, k) ==
    IF v \in DOMAIN reverse_d
    THEN Cardinality({i \in 1..Len(reverse_d[v]) : reverse_d[v][i] = k})
    ELSE 0

\* C18: reverse_dict round-trips: the returned set of counts is the set of
\* values of d, it has one non-empty bucket per count, and every entry (k, v)
\* of d occurs exactly once in the buckets, in the bucket of v, the buckets
\* holding nothing else.
C18_RoundTrip ==
    ReverseReturned =>
        /\ ReverseOut.val_set = {ReverseIn[k] : k \in DOMAIN ReverseIn}
        /\ DOMAIN ReverseOut.reverse_d = ReverseOut.val_set
        /\ \A v \in DOMAIN ReverseOut.reverse_d : ReverseOut.reverse_d[v] # <<>>
        /\ \A k \in DictKeys, v \in 1..MaxCount :
              InBucket(ReverseOut.reverse_d, v, k) =
                  (IF k \in DOMAIN ReverseIn /\ ReverseIn[k] = v THEN 1 ELSE 0)

\* reverse_dict returned for a table of three keys, two of them with the same
\* count.
C18_Witness ==
    /\ ReverseReturned
    /\ DOMAIN ReverseIn = DictKeys
    /\ Cardinality(ReverseOut.val_set) = 2
    /\ \E v \in DOMAIN ReverseOut.reverse_d : Len(ReverseOut.reverse_d[v]) = 2

(***************************************************************************)
(* The schema catalog and regex_generator (lines 28-47, 93-114), called on *)
(* their own.  A template and a pattern are sequences of characters.       *)
(***************************************************************************)
LogFormat == {"Linux", "OpenStack", "Spark", "HDFS", "HPC", "Proxifier", "Android", "HealthApp"}

\* lines 28-47: the template of each schema of the catalog.
format_string(lf) ==
    CASE lf = "Linux" ->
          <<"<", "M", "o", "n", "t", "h", ">", " ", "<", "D", "a", "t", "e", ">", " ", "<",
            "T", "i", "m", "e", ">", " ", "<", "L", "e", "v", "e", "l", ">", " ", "<", "C",
            "o", "m", "p", "o", "n", "e", "n", "t", ">", "(", "\\", "\\", "[", "<", "P",
            "I", "D", ">", "\\", "\\", "]", ")", "?", ":", " ", "<", "C", "o", "n", "t",
            "e", "n", "t", ">">>
      [] lf = "OpenStack" ->
          <<"'", "<", "L", "o", "g", "r", "e", "c", "o", "r", "d", ">", " ", "<", "D", "a",
            "t", "e", ">", " ", "<", "T", "i", "m", "e", ">", " ", "<", "P", "i", "d", ">",
            " ", "<", "L", "e", "v", "e", "l", ">", " ", "<", "C", "o", "m", "p", "o", "n",
            "e", "n", "t", ">", " ", "\\", "[", "<", "A", "D", "D", "R", ">", "\\", "]",
            " ", "<", "C", "o", "n", "t", "e", "n", "t", ">", "'">>
      [] lf = "Spark" ->
          <<"<", "D", "a", "t", "e", ">", " ", "<", "T", "i", "m", "e", ">", " ", "<", "L",
            "e", "v", "e", "l", ">", " ", "<", "C", "o", "m", "p", "o", "n", "e", "n", "t",
            ">", ":", " ", "<", "C", "o", "n", "t", "e", "n", "t", ">">>
      [] lf = "HDFS" ->
          <<"<", "D", "a", "t", "e", ">", " ", "<", "T", "i", "m", "e", ">", " ", "<", "P",
            "i", "d", ">", " ", "<", "L", "e", "v", "e", "l", ">", " ", "<", "C", "o", "m",
            "p", "o", "n", "e", "n", "t", ">", ":", " ", "<", "C", "o", "n", "t", "e", "n",
            "t", ">">>
      [] lf = "HPC" ->
          <<"<", "L", "o", "g", "I", "d", ">", " ", "<", "N", "o", "d", "e", ">", " ", "<",
            "C", "o", "m", "p", "o", "n", "e", "n", "t", ">", " ", "<", "S", "t", "a", "t",
            "e", ">", " ", "<", "T", "i", "m", "e", ">", " ", "<", "F", "l", "a", "g", ">",
            " ", "<", "C", "o", "n", "t", "e", "n", "t", ">">>
      [] lf = "Proxifier" ->
          <<"[", "<", "T", "i", "m", "e", ">", "]", " ", "<", "P", "r", "o", "g", "r", "a",
            "m", ">", " ", "-", " ", "<", "C", "o", "n", "t", "e", "n", "t", ">">>
      [] lf = "Android" ->
          <<"<", "D", "a", "t", "e", ">", " ", "<", "T", "i", "m", "e", ">", " ", " ", "<",
            "P", "i", "d", ">", " ", " ", "<", "T", "i", "d", ">", " ", "<", "L", "e", "v",
            "e", "l", ">", " ", "<", "C", "o", "m", "p", "o", "n", "e", "n", "t", ">", ":",
            " ", "<", "C", "o", "n", "t", "e", "n", "t", ">">>
      [] lf = "HealthApp" ->
          <<"<", "T", "i", "m", "e", ">", "\\", "|", "<", "C", "o", "m", "p", "o", "n",
            "e", "n", "t", ">", "\\", "|", "<", "P", "i", "d", ">", "\\", "|", "<", "C",
            "o", "n", "t", "e", "n", "t", ">">>

\* line 118: the Linux template test_regex_generator_helper compiles.
linux_format ==
    <<"<", "M", "o", "n", "t", "h", ">", " ", "<", "D", "a", "t", "e", ">", " ", "<", "T",
      "i", "m", "e", ">", " ", "<", "L", "e", "v", "e", "l", ">", " ", "<", "C", "o", "m",
      "p", "o", "n", "e", "n", "t", ">", "(", "\\", "[", "<", "P", "I", "D", ">", "\\",
      "]", ")", "?", ":", " ", "<", "C", "o", "n", "t", "e", "n", "t", ">">>

\* line 121: the OpenStack template test_regex_generator_helper compiles.
openstack_format ==
    <<"<", "L", "o", "g", "r", "e", "c", "o", "r", "d", ">", " ", "<", "D", "a", "t", "e",
      ">", " ", "<", "T", "i", "m", "e", ">", " ", "<", "P", "i", "d", ">", " ", "<", "L",
      "e", "v", "e", "l", ">", " ", "<", "C", "o", "m", "p", "o", "n", "e", "n", "t", ">",
      " ", "(", "\\", "[", "<", "A", "D", "D", "R", ">", "\\", "]", ")", "?", " ", "<",
      "C", "o", "n", "t", "e", "n", "t", ">">>

\* format[a..b], empty when b < a.
Slice(q, a, b) == IF b < a THEN <<>> ELSE SubSeq(q, a, b)

\* line 94, splitters_re = (<[^<>]+>) matched at position s: the position of
\* the closing bracket, or 0 when there is no match at s.
RECURSIVE SplitterEnd(_, _, _)
SplitterEnd(format, s, j) ==
    IF j > Len(format) THEN 0
    ELSE IF format[j] = "<" THEN 0
    ELSE IF format[j] = ">" THEN (IF j > s + 1 THEN j ELSE 0)
    ELSE SplitterEnd(format, s, j + 1)

\* line 100, find_iter: the leftmost match of splitters_re at or after i, as
\* <<start, end>>, or <<>> when there is none.
RECURSIVE FindSplitter(_, _)
FindSplitter(format, i) ==
    IF i > Len(format) THEN <<>>
    ELSE IF format[i] = "<" /\ SplitterEnd(format, i, i + 1) # 0
         THEN <<i, SplitterEnd(format, i, i + 1)>>
         ELSE FindSplitter(format, i + 1)

\* The end of the run of spaces starting at position i.
RECURSIVE SpacesEnd(_, _)
SpacesEnd(text, i) ==
    IF i < Len(text) /\ text[i + 1] = " " THEN SpacesEnd(text, i + 1) ELSE i

\* lines 95, 102: spaces_re.replace(text, r"\s+") replaces the leftmost run of
\* spaces (spaces_re = " +") and no other.
RECURSIVE ReplaceSpaces(_, _)
ReplaceSpaces(text, i) ==
    IF i > Len(text) THEN <<>>
    ELSE IF text[i] = " "
         THEN <<"\\", "s", "+">> \o Slice(text, SpacesEnd(text, i) + 1, Len(text))
         ELSE <<text[i]>> \o ReplaceSpaces(text, i + 1)

\* lines 100-108: the loop over the placeholders, from position i on.
RECURSIVE HelperFrom(_, _, _, _)
HelperFrom(format, i, prev_end, r) ==
    LET m == FindSplitter(format, i)
    IN  IF m = <<>> THEN r
        ELSE LET splitter == IF prev_end = None THEN <<>>
                             ELSE ReplaceSpaces(Slice(format, Unwrap(prev_end), m[1] - 1), 1)
                 header == Slice(format, m[1] + 1, m[2] - 1)
             IN  HelperFrom(format, m[2] + 1, Some(m[2] + 1),
                     r \o splitter \o <<"(", "?", "P", "<">> \o header
                       \o <<">", ".", "*", "?", ")">>)

\* lines 93-110
regex_generator_helper(format) == HelperFrom(format, 1, None, <<>>)

\* lines 112-114: the pattern handed to Regex::new.
regex_generator(format) == <<"^">> \o regex_generator_helper(format) \o <<"$">>

MaxFormat == 4

\* The characters of the short templates.
FormatChars == {"<", ">", "a", " "}

\* The templates compiled: those of the catalog, those of the test, and
\* every short template.
Formats ==
    {format_string(lf) : lf \in LogFormat} \cup {linux_format, openstack_format}
        \cup SeqsUpTo(FormatChars, MaxFormat)

\* regex_generator is called on a template.
InitRegex ==
    /\ variant = "single"
    /\ file = [opens |-> FALSE, lines |-> <<>>]
    /\ num_workers = 1
    /\ pc = "regex"
    /\ vec_lines = <<>>
    /\ chunks = <<>>
    /\ next_chunk = 1
    /\ jobs = <<>>
    /\ chan = <<>>
    /\ dbl = EmptyMap
    /\ trpl = EmptyMap
    /\ all_token_list = <<>>
    /\ dset = {}
    /\ ret = None
    /\ sent = <<>>
    /\ \E format \in Formats : call = Some([format |-> format, out |-> None])

\* The call is made and returns.
CallRegex ==
    /\ pc = "regex"
    /\ Unwrap(call).out = None
    /\ call' = Some([Unwrap(call) EXCEPT !.out = Some(regex_generator(Unwrap(call).format))])
    /\ UNCHANGED <<variant, file, num_workers, pc, vec_lines, chunks, next_chunk, jobs,
                   chan, dbl, trpl, all_token_list, dset, ret, sent>>

NextRegex == CallRegex

SpecRegex == InitRegex /\ [][NextRegex]_vars

RegexReturned == pc = "regex" /\ Unwrap(call).out # None
RegexIn == Unwrap(call).format
RegexOut == Unwrap(Unwrap(call).out)

\* The pattern ^(?P<Month>.*?)\s+(?P<Date>.*?)\s+(?P<Time>.*?)\s+(?P<Level>.*?)\s+
\* (?P<Component>.*?)(\[(?P<PID>.*?)\])?:\s+(?P<Content>.*?)$
LinuxPattern ==
    <<"^", "(", "?", "P", "<", "M", "o", "n", "t", "h", ">", ".", "*", "?", ")", "\\", "s",
      "+", "(", "?", "P", "<", "D", "a", "t", "e", ">", ".", "*", "?", ")", "\\", "s", "+",
      "(", "?", "P", "<", "T", "i", "m", "e", ">", ".", "*", "?", ")", "\\", "s", "+", "(",
      "?", "P", "<", "L", "e", "v", "e", "l", ">", ".", "*", "?", ")", "\\", "s", "+", "(",
      "?", "P", "<", "C", "o", "m", "p", "o", "n", "e", "n", "t", ">", ".", "*", "?", ")",
      "(", "\\", "[", "(", "?", "P", "<", "P", "I", "D", ">", ".", "*", "?", ")", "\\",
      "]", ")", "?", ":", "\\", "s", "+", "(", "?", "P", "<", "C", "o", "n", "t", "e", "n",
      "t", ">", ".", "*", "?", ")", "$">>

\* C19: compiling the Linux template of the schema catalog yields the pattern
\* LinuxPattern.
C19_LinuxCatalogPattern ==
    (RegexReturned /\ RegexIn = format_string("Linux")) => RegexOut = LinuxPattern

\* The expectation of test_regex_generator_helper (lines 118-119): the Linux
\* template written with single backslashes compiles to LinuxPattern.
TestTemplatePattern ==
    (RegexReturned /\ RegexIn = linux_format) => RegexOut = LinuxPattern

\* The count key k has in the partial results of all workers together.
Sent2(k) == SumOver([j \in 1..Len(jobs) |-> Get(jobs[j].dbl, k)], 1..Len(jobs))
Sent3(k) == SumOver([j \in 1..Len(jobs) |-> Get(jobs[j].trpl, k)], 1..Len(jobs))

\* The parallel phase is over: every chunk was dispatched and its worker has
\* sent its result.
Joined ==
    /\ pc \in {"drain", "done"}
    /\ Len(jobs) = Len(chunks)
    /\ \A j \in 1..Len(jobs) : jobs[j].state = "sent"

\* C20: the orchestrator receives and merges partial results only after all
\* workers of the parallel phase have finished, and when it returns every
\* worker's partial result has been merged into the tables exactly once.
C20_DrainAfterJoin ==
    /\ (Len(chan) < Len(sent) \/ dbl # EmptyMap \/ trpl # EmptyMap
            \/ all_token_list # <<>> \/ dset # {}) => Joined
    /\ Returned =>
          /\ chan = <<>>
          /\ Len(sent) = Len(jobs)
          /\ DOMAIN Result.dbl = UNION {DOMAIN jobs[j].dbl : j \in 1..Len(jobs)}
          /\ DOMAIN Result.trpl = UNION {DOMAIN jobs[j].trpl : j \in 1..Len(jobs)}
          /\ \A k \in DOMAIN Result.dbl : Result.dbl[k] = Sent2(k)
          /\ \A k \in DOMAIN Result.trpl : Result.trpl[k] = Sent3(k)

\* A call of the single-map variant has returned after merging the results of
\* at least two workers that counted the same bigram key.
C20_Witness ==
    /\ Returned
    /\ variant = "single"
    /\ Len(jobs) >= 2
    /\ \E k \in DOMAIN Result.dbl :
          /\ Get(jobs[1].dbl, k) >= 1
          /\ Get(jobs[2].dbl, k) >= 1
          /\ Result.dbl[k] > Get(jobs[1].dbl, k)

\* C21: in the shared-map variant the returned count of each bigram and
\* trigram key equals the sum over the chunks of the increments made for that
\* key: the maps handed to the workers, the merge of their results and the
\* final projection neither lose an increment nor count one twice.
C21_ConcCountsOnce ==
    (Returned /\ variant = "conc") =>
        /\ NoneLost(<<Result.dbl>>, ChunkTablesFrom(1, 2))
        /\ NoneLost(<<Result.trpl>>, ChunkTablesFrom(1, 3))

\* The shared-map variant has returned after at least two workers of a pool
\* of at least two threads incremented the same bigram key and the same
\* trigram key.
C21_Witness ==
    /\ Returned
    /\ variant = "conc"
    /\ num_workers >= 2
    /\ Len(jobs) >= 2
    /\ \E k \in DOMAIN Result.dbl :
          Get(jobs[1].dbl, k) >= 1 /\ Get(jobs[2].dbl, k) >= 1
    /\ \E k \in DOMAIN Result.trpl :
          Get(jobs[1].trpl, k) >= 1 /\ Get(jobs[2].trpl, k) >= 1

\* Inputs for the runs checked for their chunks: files of up to MaxChunkLines
\* lines, each undecodable or of content "a" (how the line vector is cut does
\* not depend on what the lines hold).
MaxChunkLines == 5

ChunkLines == {Undecodable, Line(TRUE, <<"a">>)}

InitChunks ==
    /\ variant \in {"single", "conc"}
    /\ file \in {[opens |-> TRUE, lines |-> l] : l \in SeqsUpTo(ChunkLines, MaxChunkLines)}
    /\ num_workers \in 1..MaxWorkers
    /\ pc = "load"
    /\ vec_lines = <<>>
    /\ chunks = <<>>
    /\ next_chunk = 1
    /\ jobs = <<>>
    /\ chan = <<>>
    /\ dbl = EmptyMap
    /\ trpl = EmptyMap
    /\ all_token_list = <<>>
    /\ dset = {}
    /\ ret = None
    /\ call = None
    /\ sent = <<>>

SpecChunks == InitChunks /\ [][Next]_vars

\* C22: the dispatched chunks are non-empty, contiguous, in file order and
\* together exactly the loaded lines (none for an empty line vector); each
\* worker gets its own chunk, and when the call returns every chunk's worker
\* has processed each line of its chunk as the current line once.
C22_ChunksPartition ==
    pc # "load" =>
        /\ Concat(chunks, 1) = vec_lines
        /\ \A i \in 1..Len(chunks) : chunks[i] # <<>>
        /\ Len(jobs) <= Len(chunks)
        /\ \A j \in 1..Len(jobs) :
              jobs[j].blocks = chunks[j] /\ jobs[j].pos \in 1..(Len(chunks[j]) + 1)
        /\ Returned =>
              /\ Len(jobs) = Len(chunks)
              /\ \A j \in 1..Len(jobs) : jobs[j].pos = Len(chunks[j]) + 1

\* A call has returned whose loaded lines were cut into more chunks than
\* workers, the last chunk shorter than the others.
C22_Witness ==
    /\ Returned
    /\ Len(chunks) > num_workers
    /\ Len(chunks[1]) >= 2
    /\ Len(chunks[Len(chunks)]) < Len(chunks[1])

\* The keys of the windows of m tokens of a token stream.
WindowKeys(stream, m) == IF m = 2 THEN Keys2(stream) ELSE Keys3(stream)

\* The keys of the windows of m tokens that lie inside a run of consecutive
\* lines with tokens, t holding the token sequences of the lines from line i
\* on and stream the tokens of the run so far.
RECURSIVE SegmentKeys(_, _, _, _)
SegmentKeys(t, i, stream, m) ==
    IF i > Len(t) THEN WindowKeys(stream, m)
    ELSE IF t[i] = <<>>
         THEN WindowKeys(stream, m) \cup SegmentKeys(t, i + 1, <<>>, m)
         ELSE SegmentKeys(t, i + 1, stream \o t[i], m)

\* The keys that combine no tokens of two lines of a chunk separated by a
\* token-less line, nor tokens of two chunks.
UncutKeys(m) ==
    UNION {SegmentKeys(TokensFrom(chunks[j], 1), 1, <<>>, m) : j \in 1..Len(chunks)}

\* Line i of the chunk yields no tokens.
TokenLess(blocks, i) == token_splitter(blocks[i], censored_regexps) = <<>>

\* C23: a line that yields no tokens cuts the context inside a chunk: the
\* worker that has just processed it holds carry (None, None), and no
\* returned bigram or trigram key combines tokens of two lines separated by a
\* token-less line.
C23_TokenLessCuts ==
    /\ \A j \in 1..Len(jobs) :
          (jobs[j].state = "running" /\ jobs[j].pos > 1
              /\ TokenLess(jobs[j].blocks, jobs[j].pos - 1)) =>
              (jobs[j].prev1 = None /\ jobs[j].prev2 = None)
    /\ Returned =>
          /\ DOMAIN Result.dbl \subseteq UncutKeys(2)
          /\ DOMAIN Result.trpl \subseteq UncutKeys(3)

\* A call has returned whose chunk held a token-less line between two lines
\* with tokens, all three processed by one worker.
C23_Witness ==
    /\ Returned
    /\ \E j \in 1..Len(jobs) : \E i \in 1..(Len(jobs[j].blocks) - 2) :
          /\ ~TokenLess(jobs[j].blocks, i)
          /\ TokenLess(jobs[j].blocks, i + 1)
          /\ ~TokenLess(jobs[j].blocks, i + 2)
          /\ Len(token_splitter(jobs[j].blocks[i], censored_regexps)) >= 2

====
